---- MODULE Spec2Model ----
(***************************************************************************)
(* Model of the order write pipeline: publishOrder (producer), the kafkajs *)
(* eachMessage handler of startConsumer with its pRetry-wrapped            *)
(* upsertOrder (consumer.mjs), and the orders_ops gateway (db.mjs).        *)
(*                                                                         *)
(* Strings that the code inspects character by character (the uuid) are    *)
(* tuples of one-character strings; all other strings are opaque values.   *)
(***************************************************************************)
EXTENDS Integers, Sequences, FiniteSets, TLC

VARIABLES
    log,        \* the topic partition: sequence of message values
    committed,  \* number of messages whose offset the consumer group committed
    consumer,   \* consumer.mjs `consumer`: "null" | "running" | "stopping"
    pc,         \* position of the eachMessage handler
    cur,        \* offset (1-based) of the message last handed to eachMessage
    order,      \* the `order` object built by the handler (NoOrder when none)
    attempt,    \* pRetry attempt number of the current delivery (0 when none)
    trail,      \* per upsertOrder call of the current delivery: Ok or its error
    waits,      \* backoff waits (ms) taken in the current delivery
    warned,     \* console.warn lines of onFailedAttempt in the current delivery
    outcome,    \* how the delivery of message cur ended ("none": it has not)
    rowsAtStart,\* the table as it was when the current delivery started
    rows,       \* table orders_ops: a set of rows
    now,        \* CURRENT_TIMESTAMP(3) of the store, in ms ticks
    dbFault,    \* what pool.query does: NoFault or the error it rejects with
    lastWrite,  \* the last two successful upserts (most recent first)
    pool,       \* db.mjs `pool`: "null" | "open" | "ended"
    probe,      \* argument of a direct call of isRetryable or parse
    verdict     \* what that call returned or threw (NoVerdict: not called)

vars == <<log, committed, consumer, pc, cur, order, attempt, trail, waits,
          warned, outcome, rowsAtStart, rows, now, dbFault, lastWrite, pool,
          probe, verdict>>

----------------------------------------------------------------------------
(* Bounds of the model *)

MaxLog == 2
MaxClock == 1

----------------------------------------------------------------------------
(* Characters and identifiers *)

HexDigits == <<"0","1","2","3","4","5","6","7","8","9","a","b","c","d","e","f">>

UpperCase == <<"A","B","C","D","E","F","G","H","I","J","K","L","M",
               "N","O","P","Q","R","S","T","U","V","W","X","Y","Z">>

LowerCase == <<"a","b","c","d","e","f","g","h","i","j","k","l","m",
               "n","o","p","q","r","s","t","u","v","w","x","y","z">>

\* String.prototype.toLowerCase, per character
LowerOf == [i \in 1..26 |-> LowerCase[i]]

UpperIndex == [c \in {UpperCase[i] : i \in 1..26} |->
                 CHOOSE i \in 1..26 : UpperCase[i] = c]

LowerChar(c) == IF c \in DOMAIN UpperIndex THEN LowerOf[UpperIndex[c]] ELSE c

toLowerCase(s) == [i \in 1..Len(s) |-> LowerChar(s[i])]

\* uuid.replace(/-/g, '')
removeHyphens(s) == SelectSeq(s, LAMBDA c : c # "-")

HexIndex == [c \in {HexDigits[i] : i \in 1..16} |->
               CHOOSE i \in 1..16 : HexDigits[i] = c]

IsHexChar(c) == c \in DOMAIN HexIndex

HexVal(c) == HexIndex[c] - 1

\* (mutation of hexOf: toLowerCase() is missing)
hexOfKeepsCase(uuid) == removeHyphens(uuid)

\* the string parse() tests and converts
hexOf(uuid) == toLowerCase(removeHyphens(uuid))

\* /^[0-9a-f]{32}$/.test(hex)
parseOk(uuid) ==
    LET hex == hexOf(uuid)
    IN  /\ Len(hex) = 32
        /\ \A i \in 1..32 : IsHexChar(hex[i])

\* Buffer.from(hex, 'hex'): 16 bytes
parse(uuid) ==
    LET hex == hexOf(uuid)
    IN  [i \in 1..16 |-> 16 * HexVal(hex[2*i - 1]) + HexVal(hex[2*i])]

\* buf.toString('hex')
toHex(buf) ==
    [i \in 1..(2 * Len(buf)) |->
        IF i % 2 = 1 THEN HexDigits[(buf[(i + 1) \div 2] \div 16) + 1]
                     ELSE HexDigits[(buf[i \div 2] % 16) + 1]]

slice(s, from, to) == SubSeq(s, from + 1, IF to > Len(s) THEN Len(s) ELSE to)

stringify(buf) ==
    LET hex == toHex(buf)
    IN  slice(hex, 0, 8) \o <<"-">> \o
        slice(hex, 8, 12) \o <<"-">> \o
        slice(hex, 12, 16) \o <<"-">> \o
        slice(hex, 16, 20) \o <<"-">> \o
        slice(hex, 20, Len(hex))

Rep(c, n) == [i \in 1..n |-> c]

Hyphenated(c) ==
    Rep(c, 8) \o <<"-">> \o Rep(c, 4) \o <<"-">> \o Rep(c, 4) \o <<"-">> \o
    Rep(c, 4) \o <<"-">> \o Rep(c, 12)

UuidA == Hyphenated("a")
UuidAUpper == Hyphenated("A")
Uuid7 == Hyphenated("7")
BadUuid == <<"n","o","t","-","a","-","u","u","i","d">>

----------------------------------------------------------------------------
(* JavaScript objects: a record whose DOMAIN holds the keys that are set. *)

Has(obj, key) == key \in DOMAIN obj

\* x ?? dflt for the field `key` of obj
Coalesce(obj, key, dflt) == IF Has(obj, key) THEN obj[key] ELSE dflt

\* !!x for a field that is a boolean or is not set
Truthy(obj, key) == IF Has(obj, key) THEN obj[key] ELSE FALSE

(* Orders handed to publishOrder by callers.  partnerId and totalAmount are  *)
(* opaque values.                                                          *)
OrderPlaced ==
    [orderId |-> UuidA, partnerId |-> "p-1001", status |-> "PLACED",
     totalAmount |-> "25.99", currency |-> "USD", isDeleted |-> FALSE]

OrderCaptured ==
    [orderId |-> UuidAUpper, partnerId |-> "p-1001", status |-> "CAPTURED",
     totalAmount |-> "25.99"]

OrderOther ==
    [orderId |-> Uuid7, partnerId |-> "p-2001", status |-> "CANCELLED",
     totalAmount |-> "123.45", currency |-> "EUR", isDeleted |-> TRUE]

OrderDeleted ==
    [orderId |-> UuidA, partnerId |-> "p-1001", status |-> "CANCELLED",
     totalAmount |-> "25.99", currency |-> "USD", isDeleted |-> TRUE]

OrderBadId ==
    [orderId |-> BadUuid, partnerId |-> "p-1001", status |-> "PLACED",
     totalAmount |-> "25.99", currency |-> "USD", isDeleted |-> FALSE]

PublishableOrders == {OrderPlaced, OrderCaptured, OrderBadId}

\* arguments of direct upsertOrder calls
GatewayOrders == PublishableOrders \cup {OrderOther, OrderDeleted}

\* JSON.stringify of an object of strings and booleans: the keys that are
\* set, with their values
JSONstringify(obj) == [json |-> TRUE, fields |-> obj]

\* a message value that is not JSON text
Garbage == [json |-> FALSE]

\* a JSON object written by another producer, without currency and isDeleted
BareJson ==
    JSONstringify([orderId |-> Uuid7, partnerId |-> "p-2001",
                   status |-> "PLACED", totalAmount |-> "123.45"])

ForeignValues == {Garbage, BareJson}

\* JSON.parse(message.value.toString('utf8')) throws SyntaxError
JSONparseThrows(value) == ~value.json

JSONparse(value) == value.fields

\* the msg object publishOrder sends
publishedMsg(o) ==
    [orderId |-> o.orderId, partnerId |-> o.partnerId, status |-> o.status,
     totalAmount |-> o.totalAmount,
     currency |-> Coalesce(o, "currency", "USD"),
     isDeleted |-> Truthy(o, "isDeleted")]

\* the order object eachMessage builds from the parsed payload
buildOrder(payload) ==
    [orderId |-> payload.orderId, partnerId |-> payload.partnerId,
     status |-> payload.status, totalAmount |-> payload.totalAmount,
     currency |-> Coalesce(payload, "currency", "USD"),
     isDeleted |-> Truthy(payload, "isDeleted")]

NoOrder == [none |-> TRUE]

\* no direct call of a pure function was made
NoProbe == [none |-> TRUE]
NoVerdict == [none |-> TRUE]

----------------------------------------------------------------------------
(* Errors and their classification *)

NoFault == [none |-> TRUE]
Ok == [ok |-> TRUE]
ErrConnRefused == [code |-> "ECONNREFUSED"]
ErrDeadlock == [code |-> "ER_LOCK_DEADLOCK", errno |-> 1213]
ErrBadNull == [code |-> "ER_BAD_NULL_ERROR", errno |-> 1048]
ErrInvalidUuid == [message |-> "Invalid UUID"]

\* the errors pool.query rejects with in the pipeline: one that the table
\* of isRetryable holds and one that it does not
StoreFaults == {ErrConnRefused, ErrBadNull}

retryableCodes ==
    {"PROTOCOL_CONNECTION_LOST", "ECONNREFUSED", "ETIMEDOUT", "EPIPE",
     "ECONNRESET", "PROTOCOL_ENQUEUE_AFTER_FATAL_ERROR"}

retryableErrnos == {1205, 1213}

\* (mutation of isRetryable: the errno set is not consulted)
isRetryableByCodeOnly(err) ==
    Has(err, "code") /\ err.code \in retryableCodes

isRetryable(err) ==
    \/ Has(err, "code") /\ err.code \in retryableCodes
    \/ Has(err, "errno") /\ err.errno \in retryableErrnos

----------------------------------------------------------------------------
(* The store gateway *)

\* the parameters of the INSERT, from upsertOrder's argument
upsertParams(o) ==
    [order_id |-> parse(o.orderId), partner_id |-> o.partnerId,
     status |-> o.status, total_amount |-> o.totalAmount,
     currency |-> Coalesce(o, "currency", "USD"),
     is_deleted |-> IF Truthy(o, "isDeleted") THEN 1 ELSE 0]

\* rows with the primary key of the statement
sameKey(table, key) == {r \in table : r.order_id = key}

\* (mutation of upsertRows: status is missing from the UPDATE list)
upsertRowsKeepsStatus(table, p, t) ==
    IF sameKey(table, p.order_id) = {}
    THEN table \cup
         {[order_id |-> p.order_id, partner_id |-> p.partner_id,
           status |-> p.status, total_amount |-> p.total_amount,
           currency |-> p.currency, is_deleted |-> p.is_deleted,
           created_ts |-> t, updated_ts |-> t]}
    ELSE (table \ sameKey(table, p.order_id)) \cup
         {[r EXCEPT !.partner_id = p.partner_id,
                    !.total_amount = p.total_amount, !.currency = p.currency,
                    !.is_deleted = p.is_deleted, !.updated_ts = t]
            : r \in sameKey(table, p.order_id)}

\* (mutation of upsertRows: REPLACE INTO, the old row is deleted and a new
\* one inserted)
upsertRowsReplace(table, p, t) ==
    (table \ sameKey(table, p.order_id)) \cup
    {[order_id |-> p.order_id, partner_id |-> p.partner_id,
      status |-> p.status, total_amount |-> p.total_amount,
      currency |-> p.currency, is_deleted |-> p.is_deleted,
      created_ts |-> t, updated_ts |-> t]}

\* INSERT ... ON DUPLICATE KEY UPDATE, executed at time t
upsertRows(table, p, t) ==
    IF sameKey(table, p.order_id) = {}
    THEN table \cup
         {[order_id |-> p.order_id, partner_id |-> p.partner_id,
           status |-> p.status, total_amount |-> p.total_amount,
           currency |-> p.currency, is_deleted |-> p.is_deleted,
           created_ts |-> t, updated_ts |-> t]}
    ELSE (table \ sameKey(table, p.order_id)) \cup
         {[r EXCEPT !.partner_id = p.partner_id, !.status = p.status,
                    !.total_amount = p.total_amount, !.currency = p.currency,
                    !.is_deleted = p.is_deleted, !.updated_ts = t]
            : r \in sameKey(table, p.order_id)}

\* upsertOrder rejects: parse throws before the query, or the query fails
upsertThrows(o, fault) == ~parseOk(o.orderId) \/ fault # NoFault

upsertError(o, fault) == IF ~parseOk(o.orderId) THEN ErrInvalidUuid ELSE fault

\* the table after a successful upsertOrder(o) at time t
upsertOrder(table, o, t) == upsertRows(table, upsertParams(o), t)

\* the normalized object getOrderById builds from a row
normalize(r) ==
    [orderId |-> stringify(r.order_id), partnerId |-> r.partner_id,
     status |-> r.status, totalAmount |-> r.total_amount,
     currency |-> r.currency, createdTs |-> r.created_ts,
     updatedTs |-> r.updated_ts, isDeleted |-> (r.is_deleted # 0)]

\* getOrderById: the objects it can return (rows[0] of the SELECT), or
\* {} when it returns null
getOrderById(table, orderId) ==
    {normalize(r) : r \in sameKey(table, parse(orderId))}

----------------------------------------------------------------------------
(* The pRetry options of eachMessage *)

retries == 2
factor == 2
minTimeout == 2000
maxTimeout == 5000

RECURSIVE Pow(_, _)
Pow(b, n) == IF n = 0 THEN 1 ELSE b * Pow(b, n - 1)

Min(a, b) == IF a < b THEN a ELSE b

\* (mutation of backoffWait: factor is not applied)
backoffWaitFlat(n) == Min(minTimeout, maxTimeout)

\* the wait before retry n (n = 1 .. retries), randomize: false
backoffWait(n) == Min(minTimeout * Pow(factor, n - 1), maxTimeout)

\* (mutation of retryLeft: one retry too many)
retryLeftOffByOne(n) == n - 1 <= retries

\* operation.retry(err): another attempt is scheduled after failed attempt n
retryLeft(n) == n - 1 < retries

\* error.retriesLeft as onFailedAttempt sees it at attempt n
retriesLeftAt(n) == retries - (n - 1)

\* (mutation of abortsRetry: the AbortError branch is missing)
abortsRetryNever(err) == FALSE

\* the catch block of the pRetry input: AbortError unless retryable
abortsRetry(err) == ~isRetryable(err)

\* (mutation of handlerResolves: the handler swallows every error)
handlerResolvesAlways(out) == TRUE

\* eachMessage returns normally (and kafkajs commits the offset) exactly
\* when pRetry resolved
handlerResolves(out) == out = "succeeded"

----------------------------------------------------------------------------
(* Initial state: modules loaded, nothing started, empty topic and table *)

ModulesLoaded ==
    /\ log = <<>>
    /\ committed = 0
    /\ consumer = "null"
    /\ pc = "idle"
    /\ cur = 0
    /\ order = NoOrder
    /\ attempt = 0
    /\ trail = <<>>
    /\ waits = <<>>
    /\ warned = <<>>
    /\ outcome = "none"
    /\ rowsAtStart = {}
    /\ rows = {}
    /\ now = 0
    /\ dbFault \in {NoFault} \cup StoreFaults
    /\ lastWrite = <<>>
    /\ pool = "null"

Init ==
    /\ ModulesLoaded
    /\ probe = NoProbe
    /\ verdict = NoVerdict

----------------------------------------------------------------------------
(* Environment *)

handlerVars == <<pc, cur, order, attempt, trail, waits, warned, outcome,
                 rowsAtStart>>

\* the handler's invocation is over: its locals are gone
handlerGone ==
    /\ pc' = "idle"
    /\ order' = NoOrder
    /\ attempt' = 0
    /\ trail' = <<>>
    /\ waits' = <<>>
    /\ warned' = <<>>
    /\ rowsAtStart' = {}
    /\ UNCHANGED <<cur, outcome>>

\* producer.send of publishOrder(o)
publishOrder(o) ==
    /\ Len(log) < MaxLog
    /\ log' = Append(log, JSONstringify(publishedMsg(o)))
    /\ UNCHANGED <<committed, consumer, handlerVars, rows, now, dbFault,
                   lastWrite, pool, probe, verdict>>

\* a message written to the topic by some other producer
publishForeign(v) ==
    /\ Len(log) < MaxLog
    /\ log' = Append(log, v)
    /\ UNCHANGED <<committed, consumer, handlerVars, rows, now, dbFault,
                   lastWrite, pool, probe, verdict>>

\* a millisecond of the store's clock passes
Tick ==
    /\ now < MaxClock
    /\ now' = now + 1
    /\ UNCHANGED <<log, committed, consumer, handlerVars, rows, dbFault,
                   lastWrite, pool, probe, verdict>>

\* the store goes down, comes back, or starts failing in another way
SetFault(f) ==
    /\ f # dbFault
    /\ dbFault' = f
    /\ UNCHANGED <<log, committed, consumer, handlerVars, rows, now,
                   lastWrite, pool, probe, verdict>>

----------------------------------------------------------------------------
(* Consumer life cycle *)

\* (not after afterAll: the process that ended its pool exits)
startConsumer ==
    /\ consumer = "null"
    /\ pool # "ended"
    /\ consumer' = "running"
    /\ UNCHANGED <<log, committed, handlerVars, rows, now, dbFault,
                   lastWrite, pool, probe, verdict>>

\* stopConsumer with a consumer: consumer.stop() is awaited, the handler in
\* flight runs to its end
stopConsumer ==
    /\ consumer = "running"
    /\ consumer' = "stopping"
    /\ UNCHANGED <<log, committed, handlerVars, rows, now, dbFault,
                   lastWrite, pool, probe, verdict>>

\* consumer.stop() and consumer.disconnect() are done: consumer = null
stopped ==
    /\ consumer = "stopping"
    /\ pc = "idle"
    /\ consumer' = "null"
    /\ UNCHANGED <<log, committed, handlerVars, rows, now, dbFault,
                   lastWrite, pool, probe, verdict>>

\* (mutation of poolEnd: afterAll does not await stopConsumer())
poolEndWithoutAwait ==
    /\ consumer \in {"null", "stopping"}
    /\ pool # "ended"
    /\ pool' = "ended"
    /\ UNCHANGED <<log, committed, consumer, handlerVars, rows, now, dbFault,
                   lastWrite, probe, verdict>>

\* afterAll: stopConsumer() has been awaited, so there is no consumer;
\* getPool().end() releases the pool
poolEnd ==
    /\ consumer = "null"
    /\ pool # "ended"
    /\ pool' = "ended"
    /\ UNCHANGED <<log, committed, consumer, handlerVars, rows, now, dbFault,
                   lastWrite, probe, verdict>>

\* the process dies and a supervisor runs startConsumer again: the group
\* resumes from its committed offset, whatever the handler was doing
processRestart ==
    /\ consumer # "null"
    /\ consumer' = "running"
    /\ handlerGone
    /\ pool' = "null"
    /\ UNCHANGED <<log, committed, rows, now, dbFault, lastWrite, probe, verdict>>

----------------------------------------------------------------------------
(* The eachMessage handler *)

\* kafkajs hands the message at the committed offset to eachMessage, which
\* parses it and builds `order` (lines 42-50) before the first await
eachMessage ==
    /\ consumer = "running"
    /\ pc = "idle"
    /\ committed < Len(log)
    /\ cur' = committed + 1
    /\ trail' = <<>>
    /\ waits' = <<>>
    /\ warned' = <<>>
    /\ rowsAtStart' = rows
    /\ IF JSONparseThrows(log[committed + 1])
       THEN /\ pc' = "rejected"
            /\ outcome' = "decodeError"
            /\ order' = NoOrder
            /\ attempt' = 0
       ELSE /\ pc' = "applying"
            /\ outcome' = "none"
            /\ order' = buildOrder(JSONparse(log[committed + 1]))
            /\ attempt' = 1
    /\ UNCHANGED <<log, committed, consumer, rows, now, dbFault,
                   lastWrite, pool, probe, verdict>>

\* one attempt of pRetry: upsertOrder(order), then the catch block,
\* onFailedAttempt and the decision to retry
applyAttempt ==
    /\ pc = "applying"
    /\ IF ~upsertThrows(order, dbFault)
       THEN /\ rows' = upsertOrder(rows, order, now)
            /\ trail' = Append(trail, Ok)
            /\ outcome' = "succeeded"
            /\ pc' = IF handlerResolves("succeeded") THEN "returned" ELSE "rejected"
            /\ UNCHANGED <<waits, warned>>
       ELSE /\ rows' = rows
            /\ IF abortsRetry(upsertError(order, dbFault))
               THEN /\ trail' = Append(trail, upsertError(order, dbFault))
                    /\ outcome' = "permanent"
                    /\ pc' = IF handlerResolves("permanent")
                             THEN "returned" ELSE "rejected"
                    /\ UNCHANGED <<waits, warned>>
               ELSE /\ trail' = Append(trail, upsertError(order, dbFault))
                    /\ warned' = Append(warned,
                                   [attemptNumber |-> attempt,
                                    retriesLeft |-> retriesLeftAt(attempt)])
                    /\ IF retryLeft(attempt)
                       THEN /\ pc' = "backoff"
                            /\ waits' = Append(waits, backoffWait(attempt))
                            /\ outcome' = "none"
                       ELSE /\ pc' = IF handlerResolves("exhausted")
                                     THEN "returned" ELSE "rejected"
                            /\ outcome' = "exhausted"
                            /\ UNCHANGED waits
    /\ pool' = IF parseOk(order.orderId) THEN "open" ELSE pool
    /\ UNCHANGED <<log, committed, consumer, cur, order, attempt, rowsAtStart,
                   now, dbFault, lastWrite, probe, verdict>>

\* the backoff timer fires: the next attempt starts
backoffElapsed ==
    /\ pc = "backoff"
    /\ pc' = "applying"
    /\ attempt' = attempt + 1
    /\ UNCHANGED <<log, committed, consumer, cur, order, trail, waits, warned,
                   outcome, rowsAtStart, rows, now, dbFault, lastWrite, pool, probe, verdict>>

\* (mutation of commitOffset: pRetry is not awaited, the handler returns
\* while the apply is in flight)
commitOffsetWithoutAwait ==
    /\ pc \in {"applying", "backoff", "returned"}
    /\ committed' = cur
    /\ IF pc = "returned" THEN handlerGone ELSE UNCHANGED handlerVars
    /\ UNCHANGED <<log, consumer, rows, now, dbFault, lastWrite, pool,
                   probe, verdict>>

\* the handler returned: kafkajs commits the offset of the message
commitOffset ==
    /\ pc = "returned"
    /\ committed' = cur
    /\ handlerGone
    /\ UNCHANGED <<log, consumer, rows, now, dbFault, lastWrite, pool, probe, verdict>>

\* the handler rejected: the offset stays, kafkajs fetches the message again
redeliver ==
    /\ pc = "rejected"
    /\ handlerGone
    /\ UNCHANGED <<log, committed, consumer, rows, now, dbFault,
                   lastWrite, pool, probe, verdict>>

----------------------------------------------------------------------------
(* The pipeline *)

Next ==
    \/ \E o \in PublishableOrders : publishOrder(o)
    \/ \E v \in ForeignValues : publishForeign(v)
    \/ Tick
    \/ \E f \in {NoFault} \cup StoreFaults : SetFault(f)
    \/ startConsumer
    \/ stopConsumer
    \/ stopped
    \/ poolEnd
    \/ processRestart
    \/ eachMessage
    \/ applyAttempt
    \/ backoffElapsed
    \/ commitOffset
    \/ redeliver

Spec == Init /\ [][Next]_vars

\* upsertOrder(o) called directly, as a caller of db.mjs does; lastWrite
\* keeps the table as it was after each of the last two successful calls
callUpsert(o) ==
    /\ IF upsertThrows(o, dbFault)
       THEN UNCHANGED <<rows, lastWrite>>
       ELSE /\ rows' = upsertOrder(rows, o, now)
            /\ lastWrite' = SubSeq(<<[order |-> o, after |-> rows']>> \o lastWrite,
                                   1, Min(Len(lastWrite) + 1, 2))
    /\ pool' = IF parseOk(o.orderId) THEN "open" ELSE pool
    /\ UNCHANGED <<log, committed, consumer, handlerVars, now, dbFault, probe, verdict>>

\* The gateway alone: direct calls of upsertOrder, the clock and the store
GatewayNext ==
    \/ \E o \in GatewayOrders : callUpsert(o)
    \/ Tick
    \/ \E f \in {NoFault} \cup StoreFaults : SetFault(f)

GatewaySpec == Init /\ [][GatewayNext]_vars

\* The pipeline without process death, under the scheduling the consumer
\* has while it runs: kafkajs keeps fetching from the committed offset,
\* promises settle and the backoff timers fire.
LiveNext ==
    \/ \E o \in PublishableOrders : publishOrder(o)
    \/ \E v \in ForeignValues : publishForeign(v)
    \/ Tick
    \/ \E f \in {NoFault} \cup StoreFaults : SetFault(f)
    \/ startConsumer
    \/ stopConsumer
    \/ stopped
    \/ poolEnd
    \/ eachMessage
    \/ applyAttempt
    \/ backoffElapsed
    \/ commitOffset
    \/ redeliver

FairSpec ==
    /\ Init
    /\ [][LiveNext]_vars
    /\ WF_vars(eachMessage)
    /\ WF_vars(applyAttempt)
    /\ WF_vars(backoffElapsed)
    /\ WF_vars(commitOffset)
    /\ WF_vars(redeliver)

----------------------------------------------------------------------------
(* The pure functions, called directly *)

\* error objects: with and without code, with and without errno
ProbeCodes ==
    retryableCodes \cup
    {"ER_LOCK_DEADLOCK", "ER_LOCK_WAIT_TIMEOUT", "ER_BAD_NULL_ERROR",
     "ER_DUP_ENTRY", "ENOTFOUND", "econnrefused"}

ProbeErrnos == retryableErrnos \cup {1048, 1062, 1206, 1214}

ErrorProbes ==
    {ErrInvalidUuid}
    \cup {[code |-> c] : c \in ProbeCodes}
    \cup {[errno |-> n] : n \in ProbeErrnos}
    \cup {[code |-> c, errno |-> n] : c \in ProbeCodes, n \in ProbeErrnos}

ClassifyInit ==
    /\ ModulesLoaded
    /\ probe \in ErrorProbes
    /\ verdict = NoVerdict

\* isRetryable(probe)
callIsRetryable ==
    /\ verdict = NoVerdict
    /\ verdict' = [returned |-> isRetryable(probe)]
    /\ UNCHANGED <<log, committed, consumer, handlerVars, rows, now, dbFault,
                   lastWrite, pool, probe>>

ClassifyNext == callIsRetryable

ClassifySpec == ClassifyInit /\ [][ClassifyNext]_vars

\* identifier strings: two characters spread over the 8-4-4-4-12 form, the
\* same without hyphens, one character short and one character long
ProbeChars == {"0", "9", "a", "f", "A", "F", "g", "-"}

Mixed(c, d) ==
    Rep(c, 8) \o <<"-">> \o Rep(d, 4) \o <<"-">> \o Rep(c, 4) \o <<"-">> \o
    Rep(d, 4) \o <<"-">> \o Rep(c, 12)

IdProbes ==
    {Mixed(c, d) : c, d \in ProbeChars}
    \cup {removeHyphens(Mixed(c, d)) : c, d \in ProbeChars}
    \cup {SubSeq(Mixed(c, d), 1, 35) : c, d \in ProbeChars}
    \cup {Mixed(c, d) \o <<d>> : c, d \in ProbeChars}
    \cup {BadUuid, <<>>}

IdInit ==
    /\ ModulesLoaded
    /\ probe \in IdProbes
    /\ verdict = NoVerdict

\* stringify(parse(probe)), or what parse throws
callParseStringify ==
    /\ verdict = NoVerdict
    /\ verdict' = IF parseOk(probe)
                  THEN [returned |-> stringify(parse(probe))]
                  ELSE [threw |-> ErrInvalidUuid]
    /\ UNCHANGED <<log, committed, consumer, handlerVars, rows, now, dbFault,
                   lastWrite, pool, probe>>

IdNext == callParseStringify

IdSpec == IdInit /\ [][IdNext]_vars

----------------------------------------------------------------------------
(* Vocabulary of the properties *)

\* the error of attempt i of the current delivery was classified Retryable
FailedRetryable(i) == trail[i] # Ok /\ isRetryable(trail[i])

\* the error of attempt i of the current delivery was classified Permanent
FailedPermanent(i) == trail[i] # Ok /\ ~isRetryable(trail[i])

\* every upsertOrder call of the current delivery failed Retryable
AllRetryable == \A i \in 1..Len(trail) : FailedRetryable(i)

\* the delivery of message cur is over and left the message Aborted
Exhausted == Len(trail) = retries + 1 /\ AllRetryable

\* the message value cannot be decoded: not JSON, or an invalid orderId
DecodeFails(value) ==
    JSONparseThrows(value) \/ ~parseOk(JSONparse(value).orderId)

\* the rows stored for the orderId of the order in hand
RowsOfOrder == sameKey(rows, parse(order.orderId))

\* row r carries the fields of order o
RowCarries(r, o) ==
    /\ r.order_id = parse(o.orderId)
    /\ r.partner_id = o.partnerId
    /\ r.status = o.status
    /\ r.total_amount = o.totalAmount
    /\ r.currency = o.currency
    /\ r.is_deleted = (IF o.isDeleted THEN 1 ELSE 0)

----------------------------------------------------------------------------
(* C1: the committed offset moves only from a delivery whose apply         *)
(* succeeded or failed Permanent, and then onto the offset of that very    *)
(* message; while an apply is in flight, waiting in backoff, or has ended  *)
(* with the retries exhausted, the committed offset is below the message.  *)
C1_CursorOnlyAfterApply ==
    [][ /\ committed' # committed =>
            /\ outcome \in {"succeeded", "permanent"}
            /\ committed' = cur
            /\ committed = cur - 1
        /\ (pc' \in {"applying", "backoff"} \/ outcome' = "exhausted") =>
            committed' < cur' ]_vars

\* message 1 is committed and message 2 waits in backoff, uncommitted
C1_Witness == committed = 1 /\ cur = 2 /\ pc = "backoff"

(* C2: when all 3 attempts of a delivery failed Retryable the handler has  *)
(* rejected with outcome "exhausted", the committed offset is still below  *)
(* the message and stays there, and the next delivery is the same message. *)
C2_ExhaustedAborts ==
    [][ /\ Exhausted =>
            /\ pc = "rejected"
            /\ outcome = "exhausted"
            /\ committed < cur
        /\ outcome = "exhausted" =>
            /\ committed' = committed
            /\ cur' = cur ]_vars

\* a message was aborted after 3 Retryable failures and delivered again
C2_Witness == outcome = "exhausted" /\ pc = "idle" /\ consumer = "running"

(* C3 (as claimed): once an attempt on a decodable message failed with a   *)
(* store error classified Permanent, the handler lets the offset be        *)
(* committed: it has returned, or the offset is committed already.         *)
C3_PermanentCommits ==
    (outcome = "permanent" /\ ~DecodeFails(log[cur])) =>
        (pc = "returned" \/ committed >= cur)

(* C4 (as claimed): a delivery of a message that fails decoding ends with  *)
(* the table untouched and the offset committed or about to be.            *)
C4_MalformedSkipped ==
    (cur > 0 /\ DecodeFails(log[cur]) /\ outcome # "none") =>
        /\ pc \in {"returned", "idle"}
        /\ pc = "idle" => committed >= cur

(* C5: an attempt that failed Permanent is the last upsertOrder call of    *)
(* its delivery: the handler has rejected, no backoff wait follows it, and *)
(* an orderId without a row when the delivery started still has none; on   *)
(* attempt 1 that means one call and no wait at all.                       *)
C5_PermanentStops ==
    \A i \in 1..Len(trail) :
        FailedPermanent(i) =>
            /\ i = Len(trail)
            /\ attempt = i
            /\ pc = "rejected"
            /\ Len(waits) = i - 1
            /\ parseOk(order.orderId) =>
                 (sameKey(rowsAtStart, parse(order.orderId)) = {} =>
                    RowsOfOrder = {})

\* a store error classified Permanent on attempt 1 of a well-formed order
C5_Witness ==
    /\ Len(trail) = 1
    /\ FailedPermanent(1)
    /\ parseOk(order.orderId)
    /\ rowsAtStart = {}

(* C6: a delivery calls upsertOrder at most 3 times, every call but the    *)
(* last failed Retryable, and while another call is pending or awaited     *)
(* (applying, backoff) all calls so far failed Retryable.                  *)
C6_AtMostThreeAttempts ==
    /\ Len(trail) <= retries + 1
    /\ \A i \in 1..(Len(trail) - 1) : FailedRetryable(i)
    /\ pc \in {"applying", "backoff"} =>
         /\ AllRetryable
         /\ Len(trail) <= retries
    /\ pc = "applying" => attempt = Len(trail) + 1
    /\ pc \in {"backoff", "returned", "rejected"} /\ outcome # "decodeError" =>
         attempt = Len(trail)

\* the third call succeeded after two Retryable failures
C6_Witness == Len(trail) = 3 /\ trail[3] = Ok

(* C7: when attempts 1 and 2 failed Retryable and attempt 3 succeeded, the *)
(* handler has returned (so the offset is committed next), and exactly one *)
(* row exists for the orderId, carrying the record's fields.               *)
C7_RetryThenSuccess ==
    (Len(trail) = 3 /\ FailedRetryable(1) /\ FailedRetryable(2) /\ trail[3] = Ok) =>
        /\ pc = "returned"
        /\ outcome = "succeeded"
        /\ ENABLED commitOffset
        /\ Cardinality(RowsOfOrder) = 1
        /\ \A r \in RowsOfOrder : RowCarries(r, order)

\* retry then success onto a row that an earlier message had created
C7_Witness ==
    /\ Len(trail) = 3
    /\ trail[3] = Ok
    /\ sameKey(rowsAtStart, parse(order.orderId)) # {}
    /\ \A r \in sameKey(rowsAtStart, parse(order.orderId)) : r.status # order.status

(* Vocabulary of the liveness properties *)

WellFormed(value) == ~DecodeFails(value)

\* getOrderById of the event's orderId returns the published values (the
\* orderId in its canonical lower-case form, currency and isDeleted with
\* their defaults when the event leaves them out) with both timestamps
Reflected(f) ==
    \E o \in getOrderById(rows, f.orderId) :
        /\ o.orderId = toLowerCase(f.orderId)
        /\ o.partnerId = f.partnerId
        /\ o.status = f.status
        /\ o.totalAmount = f.totalAmount
        /\ o.currency = Coalesce(f, "currency", "USD")
        /\ o.isDeleted = Truthy(f, "isDeleted")
        /\ Has(o, "createdTs") /\ Has(o, "updatedTs")

\* message i is a well-formed event of the topic
EventAt(i) == i <= Len(log) /\ WellFormed(log[i])

ReflectedAt(i) == EventAt(i) /\ Reflected(JSONparse(log[i]))

\* message i is in the topic, was not delivered yet, and the store is down
PublishedInOutage(i) ==
    EventAt(i) /\ cur < i /\ committed < i /\ dbFault = ErrConnRefused

\* from some point on the store is available and the consumer runs
StoreBackForGood == <>[](dbFault = NoFault /\ consumer = "running")

(* C8 (as claimed): a well-formed event that sits undelivered in the topic *)
(* while the store is down is eventually reflected in storage, once the    *)
(* store is back for good and the consumer runs.                           *)
C8_OutageRecovery ==
    StoreBackForGood =>
        \A i \in 1..MaxLog : [](PublishedInOutage(i) => <>ReflectedAt(i))

(* C9 (as claimed): with the store available and the consumer running,     *)
(* every well-formed event that is published is, at some moment, reflected *)
(* in storage (a later event of the same orderId may then replace it).     *)
C9_HappyPath ==
    StoreBackForGood => \A i \in 1..MaxLog : (<>EventAt(i) => <>ReflectedAt(i))

----------------------------------------------------------------------------
(* Vocabulary of the gateway properties *)

\* the last two successful upsertOrder calls had the same argument
AppliedTwice == Len(lastWrite) = 2 /\ lastWrite[1].order = lastWrite[2].order

\* the rows of the orderId of the last call, after the call before it and
\* after the last call
RowsAfterFirst == sameKey(lastWrite[2].after, parse(lastWrite[2].order.orderId))

RowsAfterSecond == sameKey(lastWrite[1].after, parse(lastWrite[1].order.orderId))

SameMutableFields(a, b) ==
    /\ a.partner_id = b.partner_id
    /\ a.status = b.status
    /\ a.total_amount = b.total_amount
    /\ a.currency = b.currency
    /\ a.is_deleted = b.is_deleted

(* C10 (as claimed): after upsertOrder(r); upsertOrder(r) there is exactly *)
(* one row for r.orderId, with the mutable fields and the createdTs it had *)
(* after the first call and an updatedTs strictly greater than then.       *)
C10_Idempotence ==
    AppliedTwice =>
        /\ Cardinality(RowsAfterSecond) = 1
        /\ \A a \in RowsAfterFirst : \A b \in RowsAfterSecond :
              /\ SameMutableFields(a, b)
              /\ b.created_ts = a.created_ts
              /\ b.updated_ts > a.updated_ts

----------------------------------------------------------------------------
(* Last write wins and the invariants of the table (GatewaySpec) *)

\* the last two successful calls were upsertOrder(A) then upsertOrder(B),
\* A and B with the same orderId and different statuses
WroteAThenB ==
    /\ Len(lastWrite) = 2
    /\ lastWrite[1].order.orderId = lastWrite[2].order.orderId
    /\ lastWrite[1].order.status # lastWrite[2].order.status

\* row r has the mutable fields of order o
HasFieldsOf(r, o) ==
    /\ r.partner_id = o.partnerId
    /\ r.status = o.status
    /\ r.total_amount = o.totalAmount
    /\ r.currency = (IF Has(o, "currency") THEN o.currency ELSE "USD")
    /\ r.is_deleted = (IF Has(o, "isDeleted") /\ o.isDeleted THEN 1 ELSE 0)

(* C11 (as claimed): after upsertOrder(A); upsertOrder(B), same orderId and *)
(* different statuses, there is one row for the orderId, it has B's status *)
(* and B's other mutable fields, its updatedTs is greater than it was      *)
(* after A's write, and greater than its createdTs.                        *)
C11_LastWriteWins ==
    WroteAThenB =>
        /\ Cardinality(RowsAfterSecond) = 1
        /\ \A b \in RowsAfterSecond :
              /\ HasFieldsOf(b, lastWrite[1].order)
              /\ b.updated_ts > b.created_ts
              /\ \A a \in RowsAfterFirst : b.updated_ts > a.updated_ts

\* the part of C11 that does not depend on the clock
C11_FieldsOfLastWrite ==
    WroteAThenB =>
        /\ Cardinality(RowsAfterSecond) = 1
        /\ \A b \in RowsAfterSecond :
              /\ HasFieldsOf(b, lastWrite[1].order)
              /\ b.updated_ts >= b.created_ts
              /\ \A a \in RowsAfterFirst : b.updated_ts >= a.updated_ts

(* C12: over any sequence of successful and failed upsertOrder calls there *)
(* is at most one row per orderId, a row that exists is never removed      *)
(* (isDeleted only sets the flag), and the createdTs of a row never        *)
(* changes.                                                                *)
C12_TableInvariants ==
    [][/\ \A r \in rows' : Cardinality(sameKey(rows', r.order_id)) = 1
       /\ \A r \in rows : \E q \in rows' : /\ q.order_id = r.order_id
                                           /\ q.created_ts = r.created_ts]_vars

\* a row was inserted, and later updated by an event with isDeleted set
C12_Witness ==
    \E r \in rows : r.is_deleted = 1 /\ r.updated_ts > r.created_ts

----------------------------------------------------------------------------
(* Classification of store errors (ClassifySpec) *)

Classified == IF verdict.returned THEN "Retryable" ELSE "Permanent"

\* the causes and the errnos the decision table names
TableCauses ==
    {"PROTOCOL_CONNECTION_LOST", "ECONNREFUSED", "ETIMEDOUT", "EPIPE",
     "ECONNRESET", "PROTOCOL_ENQUEUE_AFTER_FATAL_ERROR"}

InTable(err) ==
    \/ "code" \in DOMAIN err /\ err.code \in TableCauses
    \/ "errno" \in DOMAIN err /\ err.errno \in {1205, 1213}

(* C13: an error is classified Retryable exactly when its cause is one of  *)
(* the six connection causes or its errno is 1205 or 1213; every other     *)
(* error, one without code and errno included, is Permanent.               *)
C13_DecisionTable ==
    verdict # NoVerdict =>
        /\ Classified = "Retryable" <=> InTable(probe)
        /\ Classified = "Permanent" <=> ~InTable(probe)

\* an error whose code is not in the table but whose errno is: Retryable
C13_Witness ==
    /\ verdict # NoVerdict
    /\ probe = ErrDeadlock
    /\ Classified = "Retryable"

\* an error without code and errno was classified Permanent
C13_WitnessBare ==
    /\ verdict # NoVerdict
    /\ probe = ErrInvalidUuid
    /\ Classified = "Permanent"

----------------------------------------------------------------------------
(* Identifier round trip (IdSpec) *)

AnyCaseHex ==
    {"0", "1", "2", "3", "4", "5", "6", "7", "8", "9",
     "a", "b", "c", "d", "e", "f", "A", "B", "C", "D", "E", "F"}

\* s is a 36-character identifier, hexadecimal digits of any case in the
\* groups 8-4-4-4-12, hyphens between the groups
IsHyphenatedId(s) ==
    /\ Len(s) = 36
    /\ \A i \in 1..36 : IF i \in {9, 14, 19, 24} THEN s[i] = "-"
                                                  ELSE s[i] \in AnyCaseHex

LoweredChar(c) ==
    CASE c = "A" -> "a" [] c = "B" -> "b" [] c = "C" -> "c"
      [] c = "D" -> "d" [] c = "E" -> "e" [] c = "F" -> "f" [] OTHER -> c

Lowered(s) == [i \in 1..Len(s) |-> LoweredChar(s[i])]

\* s without its hyphens is 32 hexadecimal digits, of any case
ThirtyTwoHex(s) ==
    LET h == SelectSeq(s, LAMBDA c : c # "-")
    IN  Len(h) = 32 /\ \A i \in 1..32 : h[i] \in AnyCaseHex

(* C16: for every 36-character hyphenated hexadecimal identifier s, in any *)
(* letter case, stringify(parse(s)) is s in lower case; parse fails        *)
(* exactly when s, hyphens removed and lower-cased, is not 32 hexadecimal  *)
(* characters.                                                             *)
C16_RoundTrip ==
    verdict # NoVerdict =>
        /\ "threw" \in DOMAIN verdict <=> ~ThirtyTwoHex(probe)
        /\ IsHyphenatedId(probe) =>
              "returned" \in DOMAIN verdict /\ verdict.returned = Lowered(probe)

\* an identifier with upper-case digits went through parse and stringify
C16_Witness ==
    /\ IsHyphenatedId(probe)
    /\ probe # Lowered(probe)
    /\ "returned" \in DOMAIN verdict

\* parse threw for a string of the right length
C16_WitnessInvalid ==
    /\ Len(probe) = 36
    /\ "threw" \in DOMAIN verdict

----------------------------------------------------------------------------
(* Backoff schedule (Spec) *)

\* the wait before retry n in time-units of the schedule: min(2 * 2^(n-1), 5)
ScheduledUnits(n) == IF 2 * Pow(2, n - 1) < 5 THEN 2 * Pow(2, n - 1) ELSE 5

(* C14: the wait before retry n (n = 1, 2) of a delivery is                *)
(* min(2 * 2^(n-1), 5) time-units (a time-unit is a second, the timer runs *)
(* on milliseconds): 2 before the second attempt and 4 before the third,   *)
(* never below 2 nor above 5, the same on every delivery; and wait n       *)
(* exists only after attempt n failed Retryable and before attempt n + 1.  *)
C14_BackoffSchedule ==
    /\ Len(waits) <= 2
    /\ \A n \in 1..Len(waits) :
          /\ waits[n] = 1000 * ScheduledUnits(n)
          /\ waits[n] = (IF n = 1 THEN 2000 ELSE 4000)
          /\ waits[n] >= 2000 /\ waits[n] <= 5000
          /\ n <= Len(trail) /\ FailedRetryable(n)
    /\ pc = "backoff" => Len(waits) = Len(trail) /\ attempt = Len(waits)
    /\ pc = "applying" => Len(waits) = attempt - 1
    /\ pc \in {"returned", "rejected"} /\ Len(trail) > 0 =>
          Len(waits) = Len(trail) - 1

\* both waits of a delivery were taken and the third attempt is running
C14_Witness == Len(waits) = 2 /\ pc = "applying" /\ attempt = 3

----------------------------------------------------------------------------
(* One message at a time, in offset order (Spec) *)

\* a delivery is being handled: decoded, applying, waiting, or settled and
\* not yet taken back by the consumer loop
InFlight == pc # "idle"

(* C15: a message is taken up only when no other delivery is being handled *)
(* and it is the one right after the committed offset, so message N + 1 is *)
(* not decoded before message N is committed; the committed offset moves   *)
(* one message at a time, onto the message that was being handled, and is  *)
(* below the message whose apply is in flight or waiting in backoff.       *)
C15_OneAtATime ==
    [][ /\ (pc = "idle" /\ pc' # "idle") => cur' = committed + 1
        /\ cur' # cur =>
              /\ ~InFlight
              /\ cur' = cur + 1
              /\ committed = cur
        /\ committed' # committed =>
              /\ committed' = committed + 1
              /\ committed' = cur
        /\ pc' \in {"applying", "backoff"} => committed' = cur' - 1 ]_vars

\* message 1 is committed and the apply of message 2 is in flight
C15_Witness == cur = 2 /\ committed = 1 /\ pc = "applying" /\ attempt = 2

----------------------------------------------------------------------------
(* Logging of failed attempts (Spec) *)

\* console.warn was called for attempt i with its number and the retries
\* that were left
LoggedAttempt(i) ==
    \E k \in 1..Len(warned) :
        /\ warned[k].attemptNumber = i
        /\ warned[k].retriesLeft = retries - (i - 1)

(* C17 (as claimed): every failed attempt of the delivery, Retryable or    *)
(* Permanent, has been logged with its attempt number and the retries left *)
(* by the time the next action (retry, abort, drop) is taken.              *)
C17_EveryFailureLogged ==
    \A i \in 1..Len(trail) : trail[i] # Ok => LoggedAttempt(i)

\* the part of C17 the code keeps: the failures classified Retryable
C17_RetryableLogged ==
    \A i \in 1..Len(trail) : FailedRetryable(i) => LoggedAttempt(i)

----------------------------------------------------------------------------
(* Graceful shutdown (Spec) *)

(* C18: once stopConsumer was requested no delivery is started; the        *)
(* consumer is released (stop, disconnect, consumer = null) only when the  *)
(* delivery in flight has run to its end, never while an attempt or a      *)
(* backoff wait is pending; the pool is ended only after that, with no     *)
(* consumer and no delivery left; and with no consumer stopConsumer does   *)
(* nothing.                                                                *)
C18_ShutdownOrder ==
    [][ /\ (consumer # "running" /\ pc = "idle") => pc' = "idle"
        /\ (consumer = "stopping" /\ consumer' = "null") =>
              /\ pc = "idle"
              /\ pool' = pool
        /\ (pool # "ended" /\ pool' = "ended") =>
              /\ consumer = "null"
              /\ pc = "idle"
        /\ consumer = "null" => ~ENABLED stopConsumer ]_vars

\* stop was requested while message 1 waits in backoff and message 2 is in
\* the topic
C18_Witness ==
    /\ consumer = "stopping"
    /\ pc = "backoff"
    /\ cur = 1
    /\ Len(log) = 2

\* the consumer worked, was stopped, and the pool was ended
C18_WitnessReleased ==
    /\ pool = "ended"
    /\ consumer = "null"
    /\ committed = 1
    /\ Len(log) = 2

----------------------------------------------------------------------------
(* What the handler's return means (Spec) *)

\* some upsertOrder call of the current delivery succeeded
SomeAttemptSucceeded == \E i \in 1..Len(trail) : trail[i] = Ok

\* the handler of the current delivery has settled
Settled == pc \in {"returned", "rejected"}

(* C19: the handler returns normally, and the offset of its message is     *)
(* committed, exactly when an upsertOrder call of that delivery succeeded; *)
(* when the delivery ended otherwise (decode error, invalid orderId, error *)
(* classified Permanent, retries exhausted) the handler rejects and the    *)
(* offset of the message is not committed.                                 *)
C19_ReturnIffApplied ==
    [][ /\ Settled' => (pc' = "returned" <=> SomeAttemptSucceeded')
        /\ Settled' /\ ~SomeAttemptSucceeded' =>
              /\ pc' = "rejected"
              /\ outcome' \in {"decodeError", "permanent", "exhausted"}
              /\ committed' < cur'
        /\ committed' # committed =>
              /\ pc = "returned"
              /\ SomeAttemptSucceeded
              /\ committed' = cur
        /\ pc = "rejected" => committed' = committed ]_vars

\* the handler rejected on a message that JSON.parse does not accept
C19_Witness ==
    /\ pc = "rejected"
    /\ outcome = "decodeError"
    /\ committed < cur

\* the handler rejected after an error classified Permanent
C19_WitnessPermanent ==
    /\ pc = "rejected"
    /\ outcome = "permanent"
    /\ parseOk(order.orderId)
    /\ committed < cur

----------------------------------------------------------------------------
(* The effect of the committed messages (Spec) *)

\* the keys of the well-formed events of the topic, by offset
EventKeys ==
    [i \in {m \in 1..Len(log) : WellFormed(log[m])} |->
        parse(JSONparse(log[i]).orderId)]

\* the table after each of the first n messages was applied exactly once,
\* in log order
RECURSIVE AppliedOnceInOrder(_)
AppliedOnceInOrder(n) ==
    IF n = 0 THEN {}
    ELSE upsertOrder(AppliedOnceInOrder(n - 1),
                     buildOrder(JSONparse(log[n])), 0)

WithoutTimestamps(table) ==
    {[r EXCEPT !.created_ts = 0, !.updated_ts = 0] : r \in table}

(* C20: whatever deliveries, duplicates, redeliveries and restarts from    *)
(* the committed offset happened, the orderId of every committed message   *)
(* has exactly one row, and that row carries the fields of the last        *)
(* committed event of the orderId or of a later event of it, never those   *)
(* of an earlier one; so once every message is committed the table is the  *)
(* one obtained by applying each event exactly once in log order.          *)
C20_ExactlyOnceEffect ==
    LET key == EventKeys
        \* the last committed message with the orderId of message j
        last(j) == CHOOSE l \in j..committed :
                       /\ key[l] = key[j]
                       /\ \A m \in (l + 1)..committed : key[m] # key[j]
    IN  /\ \A j \in 1..committed :
              /\ j \in DOMAIN key
              /\ Cardinality(sameKey(rows, key[j])) = 1
              /\ \A r \in sameKey(rows, key[j]) :
                    \E m \in last(j)..Len(log) :
                        /\ m \in DOMAIN key
                        /\ key[m] = key[j]
                        /\ m <= committed + 1
                        /\ HasFieldsOf(r, JSONparse(log[m]))
        /\ committed = Len(log) =>
              WithoutTimestamps(rows) =
                  WithoutTimestamps(AppliedOnceInOrder(Len(log)))

\* two different events of one orderId were committed
C20_Witness ==
    /\ committed = 2
    /\ Len(log) = 2
    /\ log[1] # log[2]
    /\ JSONparse(log[1]).status # JSONparse(log[2]).status
    /\ Cardinality(rows) = 1
    /\ pc = "idle"

====
